---- MODULE Spec2Model ----
(***************************************************************************)
(* A model of the policy-driven gateway: the policy store and its admin    *)
(* endpoints, the authenticator, the Redis-backed fixed-window rate        *)
(* limiter and monthly quota, and the three request handlers               *)
(* (/v1/generate, /v1/proxy, /v1/route/{route_name}).                      *)
(*                                                                         *)
(* One gateway process runs its handlers on one event loop: the code       *)
(* between two awaits of a handler is one atomic step.  The Redis          *)
(* commands of the concurrent requests interleave freely, and the clock    *)
(* may advance between any two steps.                                      *)
(***************************************************************************)
EXTENDS Integers, Sequences, FiniteSets, TLC

\* ------------------------------------------------------------- bounds
\* The texts handed to redact_text alone have at most MaxLen words.
MaxLen == 3
\* The audit log takes at most MaxLog lines.
MaxLog == 2
\* The clock advances at most MaxTicks seconds past StartTime.
MaxTicks == 1
\* A rate window counter is incremented while it is below MaxCount.
MaxCount == 3

\* ---------------------------------------------------- program constants
DefaultRequests == 60
DefaultPerSeconds == 60
DefaultMonthlyTokens == 100000
\* seconds of a 30-day month (calendar.monthrange)
MonthSeconds == 2592000
\* the cushion `60 * 60 * 24` added to a quota key's expiry
GraceSeconds == 60 * 60 * 24
\* the clock starts three seconds before a month ends, at the last second
\* of a two-second window
StartTime == MonthSeconds - 3

\* ------------------------------------------------------ python values
\* Python's None, where a string is expected
None == "None"
\* the empty dict {}
EmptyDict == [k \in {} |-> 0]
\* dict.get(k, dflt)
Get(d, k, dflt) == IF k \in DOMAIN d THEN d[k] ELSE dflt
Range(s) == {s[i] : i \in DOMAIN s}
Max(a, b) == IF a >= b THEN a ELSE b

REDACTED == "[REDACTED]"
AllMethods == <<"GET", "POST", "PUT", "PATCH", "DELETE", "OPTIONS">>

\* ------------------------------------------------------------ strings
\* A header is the sequence of its pieces, " " being one whitespace
\* character and every other piece a run of non-blank characters.  A
\* missing header (None) and an empty one ("") are both <<>>: the handlers
\* and the authenticator test them with `not auth` alone.
SP == " "
IsWord(x) == x # SP
\* str.split(): the maximal runs of non-blank characters
Split(h) == SelectSeq(h, IsWord)

\* A text (prompt, response) is the sequence of its words.
\* re.sub / str.replace of one pattern (a phrase of words): every
\* non-overlapping occurrence, left to right, becomes the marker.
RECURSIVE ReplaceAll(_, _)
ReplaceAll(text, pat) ==
    IF Len(text) < Len(pat) \/ pat = <<>> THEN text
    ELSE IF SubSeq(text, 1, Len(pat)) = pat
         THEN <<REDACTED>> \o ReplaceAll(SubSeq(text, Len(pat) + 1, Len(text)), pat)
         ELSE <<Head(text)>> \o ReplaceAll(Tail(text), pat)

RECURSIVE redact_text(_, _)
redact_text(text, patterns) ==
    IF patterns = <<>> THEN text
    ELSE redact_text(ReplaceAll(text, Head(patterns)), Tail(patterns))

\* the word-count fallback of the tokenizer: max(1, int(len(words) * 1.3))
estimate_tokens(text) == Max(1, (Len(text) * 13) \div 10)

\* --------------------------------------------------- policy documents
\* A document (PolicyStore.raw) is a dict; its "tenants" dict is kept as
\* the sequence of its <<tenant id, tenant policy>> items in insertion
\* order, which is the order token_map() iterates in.
PiiPatterns == << <<"john", "smith">> >>

RoutesA ==
    [chat  |-> [ai |-> TRUE, model |-> "m1", redact |-> TRUE],
     big   |-> [ai |-> TRUE, model |-> "m1",
                rate_limit |-> [requests |-> 2, per_seconds |-> 2],
                quota |-> [monthly_tokens |-> 3]],
     up    |-> [upstream |-> "http://x/a", allow_methods |-> <<"GET">>],
     part  |-> [ai |-> TRUE, model |-> "m1", rate_limit |-> [requests |-> 2]],
     empty |-> EmptyDict]

T1A == [tokens |-> <<"a">>,
        rate_limit |-> [requests |-> 1, per_seconds |-> 2],
        quota |-> [monthly_tokens |-> 2],
        pii_patterns |-> PiiPatterns,
        default_provider |-> "openai",
        provider_credentials |-> [openai |-> [api_key |-> "k"]],
        routes |-> RoutesA]

RoutesB ==
    [chat |-> [ai |-> TRUE, model |-> "m2"],
     up   |-> [allow_methods |-> <<"GET", "POST">>]]

T1B == [tokens |-> <<"a", "b">>,
        rate_limit |-> [requests |-> 2, per_seconds |-> 2],
        quota |-> [monthly_tokens |-> 1],
        routes |-> RoutesB]

T2B == [tokens |-> <<"b">>,
        rate_limit |-> [requests |-> 1, per_seconds |-> 2],
        quota |-> [monthly_tokens |-> 1]]

\* the document of the policy file at startup
DocA == [tenants |-> << <<"t1", T1A>> >>]
\* a document an admin posts: a second tenant, written before the first,
\* and a token listed under both
DocB == [tenants |-> << <<"t2", T2B>>, <<"t1", T1B>> >>]

TenantIds == <<"t1", "t2">>

\* yaml.safe_dump sorts the keys of every mapping: the tenants of the
\* dumped document come in key order.
HasTenant(raw, t) == \E i \in DOMAIN Get(raw, "tenants", <<>>) : raw.tenants[i][1] = t
ItemOf(raw, t) == raw.tenants[CHOOSE i \in DOMAIN raw.tenants : raw.tenants[i][1] = t]
RECURSIVE SortedItems(_, _)
SortedItems(raw, ids) ==
    IF ids = <<>> THEN <<>>
    ELSE (IF HasTenant(raw, Head(ids)) THEN <<ItemOf(raw, Head(ids))>> ELSE <<>>)
         \o SortedItems(raw, Tail(ids))
safe_dump(raw) ==
    IF "tenants" \in DOMAIN raw
    THEN [raw EXCEPT !.tenants = SortedItems(raw, TenantIds)]
    ELSE raw

\* A YAML text: a mapping document, the empty text, a text that does not
\* parse, or a text whose top level is a list.
MappingText(raw) == [kind |-> "mapping", raw |-> raw]
EmptyText == [kind |-> "empty", raw |-> EmptyDict]
GarbageText == [kind |-> "garbage", raw |-> EmptyDict]
ListText == [kind |-> "list", raw |-> EmptyDict]

\* PolicyStore.load: `yaml.safe_load(f) or {}`; raises on a text that does
\* not parse.
LoadRaises(text) == text.kind = "garbage"
load(text) == IF text.kind = "mapping" THEN text.raw ELSE EmptyDict

for_tenant(raw, tenant) ==
    IF HasTenant(raw, tenant) THEN ItemOf(raw, tenant)[2] ELSE EmptyDict

route_for_tenant(raw, tenant, route_name) ==
    Get(Get(for_tenant(raw, tenant), "routes", EmptyDict), route_name, EmptyDict)

\* token -> tenant with the first tenant listing a token kept
token_map_FirstWins(raw) ==
    LET ts == Get(raw, "tenants", <<>>)
        toks(i) == Range(Get(ts[i][2], "tokens", <<>>))
        all == UNION {toks(i) : i \in DOMAIN ts}
        first(tok) == CHOOSE i \in DOMAIN ts :
                         /\ tok \in toks(i)
                         /\ \A j \in DOMAIN ts : tok \in toks(j) => i <= j
    IN [tok \in all |-> ts[first(tok)][1]]

\* token -> tenant; a later tenant overwrites an earlier one
token_map(raw) ==
    LET ts == Get(raw, "tenants", <<>>)
        toks(i) == Range(Get(ts[i][2], "tokens", <<>>))
        all == UNION {toks(i) : i \in DOMAIN ts}
        last(tok) == CHOOSE i \in DOMAIN ts :
                        /\ tok \in toks(i)
                        /\ \A j \in DOMAIN ts : tok \in toks(j) => j <= i
    IN [tok \in all |-> ts[last(tok)][1]]

\* not x, for a dict or a sequence
Falsy(x) == DOMAIN x = {}

get_tenant_from_token(authorization_header, raw) ==
    IF Falsy(authorization_header) THEN None
    ELSE LET parts == Split(authorization_header)
         IN IF Len(parts) # 2 THEN None
            ELSE Get(token_map(raw), parts[2], None)

\* -------------------------------------------------------------- state
VARIABLES
    now,       \* the clock, in seconds (time.time(), datetime.utcnow())
    policies,  \* app.state.policies: the raw document of the active PolicyStore
    file,      \* the text of POLICY_FILE
    admin,     \* the last admin call and the status it answered
    redis,     \* the shared store: key -> [val, exp]; exp = 0: no expiry set
    req,       \* the handler invocations in flight, by slot
    admitted,  \* history: per live rate counter, the requests it admitted
    calls,     \* history: per live rate counter, the INCRs and EXPIREs run on it
    audit,     \* logs/audit.log: the lines appended to it, where they are kept
    pure       \* a text, a pattern list and the texts redact_text made of them

vars == <<now, policies, file, admin, redis, req, admitted, calls, audit, pure>>

Slots == {"r1", "r2"}

\* The request inputs a client draws from: I.headers, I.routes, I.methods,
\* I.prompts.
AllHeaders ==
    { <<>>,                          \* missing or empty
      <<"Bearer">>,                  \* one field
      <<"Bearer", SP, "zz">>,        \* well-formed, unknown token
      <<"Bearer", SP, "a">>,
      <<"Basic", SP, "a">>,
      <<"Bearer", SP, "b">> }
\* The other headers of a request, as the <<name, value>> items of
\* request.headers in the order received; a name may come more than once.
PlainHeaders == << <<"host", "gw">>, <<"content-length", "2">>, <<"x-a", "1">> >>
RepeatedHeaders == << <<"x-a", "1">>, <<"Host", "gw">>, <<"x-a", "2">> >>
\* A request body: a JSON object (with the prompt the request carries), a
\* JSON object without a prompt field, JSON that is no object, not JSON.
BodyKinds == {"object", "noprompt", "list", "notjson"}
PromptHi == <<"hi">>
PromptPii == <<"john", "smith", "hi">>
\* a prompt that is PII alone: two tokens as received, one once redacted
PromptName == <<"john", "smith">>
\* any request
AnyInputs ==
    [headers |-> AllHeaders,
     routes |-> {"chat", "big", "up", "part", "empty", "nope"},
     methods |-> {"GET", "POST"},
     prompts |-> {<<>>, PromptHi, PromptPii},
     bodies |-> {"object"},
     extras |-> {PlainHeaders}]
\* the requests of a client of tenant t1
TenantInputs ==
    [headers |-> {<<"Bearer", SP, "a">>},
     routes |-> {"big", "up"},
     methods |-> {"GET"},
     prompts |-> {PromptHi},
     bodies |-> {"object"},
     extras |-> {PlainHeaders}]
\* the requests sent while the policy document changes
AdminInputs ==
    [headers |-> {<<"Bearer", SP, "a">>, <<"Bearer", SP, "b">>},
     routes |-> {"chat", "up"},
     methods |-> {"GET"},
     prompts |-> {PromptPii},
     bodies |-> {"object"},
     extras |-> {PlainHeaders}]
\* the requests of tenant t1 with any body and any other headers
BodyInputs ==
    [headers |-> {<<"Bearer", SP, "a">>},
     routes |-> {"chat", "up"},
     methods |-> {"GET", "POST"},
     prompts |-> {<<>>, PromptPii, PromptName},
     bodies |-> BodyKinds,
     extras |-> {PlainHeaders, RepeatedHeaders}]
\* the requests whose audit lines are kept
AuditInputs ==
    [headers |-> {<<>>, <<"Bearer", SP, "zz">>, <<"Bearer", SP, "a">>},
     routes |-> {"chat", "up", "nope"},
     methods |-> {"GET", "POST"},
     prompts |-> {<<>>, PromptPii},
     bodies |-> {"object"},
     extras |-> {PlainHeaders}]
\* the requests of a second client of tenant t1
RacerInputs ==
    [headers |-> {<<"Bearer", SP, "a">>},
     routes |-> {"big"},
     methods |-> {"GET"},
     prompts |-> {PromptHi},
     bodies |-> {"object"},
     extras |-> {PlainHeaders}]
\* the bodies posted to /admin/policies
Bodies == {EmptyText, GarbageText, ListText, MappingText(DocB), MappingText(DocA)}

\* The gateway only appends to logs/audit.log and never reads it.  The
\* specifications that state nothing about the file keep no record of its
\* lines (Unkept); the others start from an empty file.
Unkept == [kept |-> FALSE, lines |-> <<>>]
EmptyLog == [kept |-> TRUE, lines |-> <<>>]
\* `f.write(json.dumps(entry) + "\n")` on a file opened for appending
Written(log, entry) ==
    IF log.kept THEN [log EXCEPT !.lines = Append(@, entry)] ELSE log
\* a kept log takes at most MaxLog lines
HasRoom(log) == ~log.kept \/ Len(log.lines) < MaxLog

\* no text is being redacted outside a request
NoText == [text |-> <<>>, patterns |-> <<>>, once |-> <<>>, twice |-> <<>>, step |-> 0]

Idle ==
    [pc |-> "idle", kind |-> "", auth |-> <<>>, route_name |-> "", method |-> "",
     body |-> "object", prompt |-> <<>>, hdrs |-> <<>>, tenant |-> None, policy |-> EmptyDict, route_cfg |-> EmptyDict,
     reqs |-> 0, per |-> 0, window |-> 0, val |-> 0, retry |-> 0,
     sent |-> <<>>, tokens |-> 0, cap |-> 0, qmonth |-> 0, qexpire |-> 0,
     allowed |-> "none", consumed |-> "none", called |-> FALSE,
     out |-> EmptyDict, response |-> <<>>, relayed |-> 0, logged |-> 0, status |-> 0]

\* the gateway after its lifespan startup, no request received yet
Startup ==
    /\ now = StartTime
    /\ file = MappingText(DocA)
    /\ policies = load(file)
    /\ admin = [op |-> "none", status |-> 0]
    /\ redis = EmptyDict
    /\ req = [r \in Slots |-> Idle]
    /\ admitted = EmptyDict
    /\ calls = EmptyDict

Init ==
    /\ Startup
    /\ audit = Unkept
    /\ pure = NoText

\* -------------------------------------------------------------- redis
Put(f, k, v) == [x \in DOMAIN f \cup {k} |-> IF x = k THEN v ELSE f[x]]
Del(f, k) == [x \in DOMAIN f \ {k} |-> f[x]]
\* the counter named by the tenant alone, one for all windows
RlKey_NoWindow(tenant, window) == <<"rl", tenant, 0>>
RlKey(tenant, window) == <<"rl", tenant, window>>
QuotaKey(tenant, month) == <<"quota", tenant, month>>
\* GET of a counter: 0 when the key is absent
Value(store, k) == IF k \in DOMAIN store THEN store[k].val ELSE 0
\* INCRBY: creates an absent key, keeps an existing key's expiry
IncrBy(store, k, n) ==
    IF k \in DOMAIN store THEN [store EXCEPT ![k].val = @ + n]
    ELSE Put(store, k, [val |-> n, exp |-> 0])
\* EXPIRE at time t: nothing on an absent key; a timeout <= 0 deletes the key
Expire(store, k, secs, t) ==
    IF k \notin DOMAIN store THEN store
    ELSE IF secs <= 0 THEN Del(store, k)
    ELSE [store EXCEPT ![k].exp = t + secs]
\* TTL at time t: -2 for an absent key, -1 for a key without expiry
Ttl(store, k, t) ==
    IF k \notin DOMAIN store THEN 0 - 2
    ELSE IF store[k].exp = 0 THEN 0 - 1
    ELSE store[k].exp - t
\* the keys whose expiry has passed are gone
Unexpired(store, t) ==
    LET live == {k \in DOMAIN store : store[k].exp = 0 \/ store[k].exp > t}
    IN [k \in live |-> store[k]]

\* the history of the counters that are still there
Live(adm, store) == [k \in DOMAIN adm \cap DOMAIN store |-> adm[k]]
\* the history once the handler of rec is past the rate limiter's counter
Admit(adm, rec, k) ==
    IF rec.allowed = "yes" THEN Put(adm, k, Get(adm, k, 0) + 1) ELSE adm

\* the history once a command ran on the counter k
Called(cs, k, cmd) ==
    LET old == Get(cs, k, [incr |-> 0, expire |-> 0])
    IN Put(cs, k, IF cmd = "incr" THEN [old EXCEPT !.incr = @ + 1]
                  ELSE [old EXCEPT !.expire = @ + 1])

\* the clock advances one second
Tick ==
    /\ now < StartTime + MaxTicks
    /\ now' = now + 1
    /\ redis' = Unexpired(redis, now + 1)
    /\ admitted' = Live(admitted, redis')
    /\ calls' = Live(calls, redis')
    /\ UNCHANGED <<policies, file, admin, req, audit, pure>>

\* ----------------------------------------------------------- handlers
\* A handler runs from one await to the next in one step.  The reply of a
\* Redis command is taken to arrive at the instant Redis ran the command,
\* so the step of a command carries the handler on to its next await.
SetReq(r, rec) == req' = [req EXCEPT ![r] = rec]
\* a slot takes a request when it is free
Free(r) == req[r].pc = "idle"
\* the handler raised HTTPException(status), or returned (200)
Respond(rec, status) == [rec EXCEPT !.pc = "done", !.status = status]

\* RateLimiter.allow and the start of rate_allow, up to `await redis.incr`:
\* the limits of cfg, the clock, the window index
RateBegin(rec, cfg) ==
    LET per == Get(cfg, "per_seconds", DefaultPerSeconds)
    IN [rec EXCEPT !.pc = "incr",
                   !.reqs = Get(cfg, "requests", DefaultRequests),
                   !.per = per,
                   !.window = now \div Max(1, per)]

\* the rate-limit config /v1/route resolves: the route's, else the tenant's
RouteRateCfg(route_cfg, policy) ==
    Get(route_cfg, "rate_limit", Get(policy, "rate_limit", EmptyDict))
\* the quota config /v1/route resolves
RouteQuotaCfg(route_cfg, policy) ==
    Get(route_cfg, "quota", Get(policy, "quota", EmptyDict))
TenantRateCfg(policy) == Get(policy, "rate_limit", EmptyDict)
TenantQuotaCfg(policy) == Get(policy, "quota", EmptyDict)

\* the route's allow_methods left unread
AllowMethods_All(route_cfg) == AllMethods

\* `route_cfg.get("allow_methods") or [...]`
AllowMethods(route_cfg) ==
    LET am == Get(route_cfg, "allow_methods", <<>>)
    IN IF Falsy(am) THEN AllMethods ELSE am

\* /v1/generate and /v1/proxy, from the header to the rate limiter's INCR
TenantStart(r, kind, auth, method, prompt) ==
    LET rec == [Idle EXCEPT !.kind = kind, !.auth = auth, !.method = method,
                            !.prompt = prompt]
        tenant == get_tenant_from_token(auth, policies)
        policy == for_tenant(policies, tenant)
    IN /\ Free(r)
       /\ SetReq(r, IF Falsy(auth) THEN Respond(rec, 401)
                    ELSE IF tenant = None THEN Respond(rec, 403)
                    ELSE RateBegin([rec EXCEPT !.tenant = tenant, !.policy = policy],
                                   TenantRateCfg(policy)))
       /\ UNCHANGED <<now, policies, file, admin, redis, admitted, calls, audit, pure>>

generate_start(r, I) ==
    \E auth \in I.headers, prompt \in I.prompts :
        TenantStart(r, "generate", auth, "POST", prompt)

proxy_start(r, I) ==
    \E auth \in I.headers, method \in I.methods :
        TenantStart(r, "proxy", auth, method, <<>>)

\* request.headers.items(): the Authorization header when there is one,
\* and the other headers
InboundHeaders(auth, extra) ==
    (IF auth = <<>> THEN <<>> ELSE << <<"authorization", auth>> >>) \o extra

\* the handler counting the request on the tenant's window before it looks
\* the route up: a request answered 404 or 405 has been counted
route_forward_start_CountsFirst(r, I) ==
    \E auth \in I.headers, route_name \in I.routes, method \in I.methods,
       prompt \in I.prompts, body \in I.bodies, extra \in I.extras :
        LET rec == [Idle EXCEPT !.kind = "route", !.auth = auth,
                                !.route_name = route_name, !.method = method,
                                !.body = body,
                                !.prompt = IF body = "object" THEN prompt ELSE <<>>,
                                !.hdrs = InboundHeaders(auth, extra)]
            tenant == get_tenant_from_token(auth, policies)
            policy == for_tenant(policies, tenant)
            route_cfg == route_for_tenant(policies, tenant, route_name)
        IN /\ Free(r)
           /\ SetReq(r, IF Falsy(auth) THEN Respond(rec, 401)
                        ELSE IF tenant = None THEN Respond(rec, 403)
                        ELSE IF Falsy(route_cfg) THEN
                            Respond([rec EXCEPT !.tenant = tenant, !.policy = policy], 404)
                        ELSE IF method \notin Range(AllowMethods(route_cfg)) THEN
                            Respond([rec EXCEPT !.tenant = tenant, !.policy = policy,
                                                !.route_cfg = route_cfg], 405)
                        ELSE RateBegin([rec EXCEPT !.tenant = tenant, !.policy = policy,
                                                   !.route_cfg = route_cfg],
                                       RouteRateCfg(route_cfg, policy)))
           /\ redis' = IF req'[r].status \in {404, 405}
                       THEN LET cfg == TenantRateCfg(policy)
                                per == Get(cfg, "per_seconds", DefaultPerSeconds)
                                key == RlKey(tenant, now \div Max(1, per))
                            IN IF Value(redis, key) < MaxCount
                               THEN IncrBy(redis, key, 1) ELSE redis
                       ELSE redis
           /\ UNCHANGED <<now, policies, file, admin, admitted, calls, audit, pure>>

\* /v1/route/{route_name}, from the header to the rate limiter's INCR
route_forward_start(r, I) ==
    \E auth \in I.headers, route_name \in I.routes, method \in I.methods,
       prompt \in I.prompts, body \in I.bodies, extra \in I.extras :
        LET rec == [Idle EXCEPT !.kind = "route", !.auth = auth,
                                !.route_name = route_name, !.method = method,
                                !.body = body,
                                !.prompt = IF body = "object" THEN prompt ELSE <<>>,
                                !.hdrs = InboundHeaders(auth, extra)]
            tenant == get_tenant_from_token(auth, policies)
            policy == for_tenant(policies, tenant)
            route_cfg == route_for_tenant(policies, tenant, route_name)
        IN /\ Free(r)
           /\ SetReq(r, IF Falsy(auth) THEN Respond(rec, 401)
                        ELSE IF tenant = None THEN Respond(rec, 403)
                        ELSE IF Falsy(route_cfg) THEN
                            Respond([rec EXCEPT !.tenant = tenant, !.policy = policy], 404)
                        ELSE IF method \notin Range(AllowMethods(route_cfg)) THEN
                            Respond([rec EXCEPT !.tenant = tenant, !.policy = policy,
                                                !.route_cfg = route_cfg], 405)
                        ELSE RateBegin([rec EXCEPT !.tenant = tenant, !.policy = policy,
                                                   !.route_cfg = route_cfg],
                                       RouteRateCfg(route_cfg, policy)))
           /\ UNCHANGED <<now, policies, file, admin, redis, admitted, calls, audit, pure>>

\* -------------------------------------------------------------- quota
\* _seconds_until_month_end at time t: up to 23:59:59 of the month's last day
seconds_until_month_end(t) == ((t \div MonthSeconds) + 1) * MonthSeconds - 1 - t

\* QuotaManager.consume and the start of quota_consume, up to
\* `await redis.eval`: the cap of cfg, the month of the key, the expiry
QuotaBegin(rec, text, cfg) ==
    [rec EXCEPT !.pc = "eval",
                !.tokens = estimate_tokens(text),
                !.cap = Get(cfg, "monthly_tokens", DefaultMonthlyTokens),
                !.qmonth = now \div MonthSeconds,
                !.qexpire = seconds_until_month_end(now) + GraceSeconds]

\* the handler reading the quota from the active document again
generate_allowed_ActiveDoc(rec) ==
    QuotaBegin(rec, rec.prompt, TenantQuotaCfg(for_tenant(policies, rec.tenant)))

\* /v1/generate once the rate limiter allowed: the tokens of the prompt as
\* received, the tenant's quota
generate_allowed(rec) == QuotaBegin(rec, rec.prompt, TenantQuotaCfg(rec.policy))

\* /v1/proxy once the rate limiter allowed: the request goes out
proxy_allowed(rec) == [rec EXCEPT !.pc = "forward"]

\* str.lower() of a header name
Lower(name) ==
    CASE name = "Host" -> "host"
      [] name = "Authorization" -> "authorization"
      [] name = "Content-Length" -> "content-length"
      [] OTHER -> name
StrippedHeaders == {"host", "authorization", "content-length"}
\* `{k: v for k, v in request.headers.items() if k.lower() not in (...)}`:
\* a dict, in which a later item of a name replaces an earlier one
forward_headers(items) ==
    LET kept == {i \in DOMAIN items : Lower(items[i][1]) \notin StrippedHeaders}
        last(n) == CHOOSE i \in kept :
                      /\ items[i][1] = n
                      /\ \A j \in kept : items[j][1] = n => j <= i
    IN [n \in {items[i][1] : i \in kept} |-> items[last(n)][2]]

\* /v1/route once the rate limiter allowed: the AI branch up to the quota
\* script, or the proxy branch up to the outbound request
route_allowed(rec) ==
    LET route_cfg == rec.route_cfg
        policy == rec.policy
        prompt == IF Get(route_cfg, "redact", FALSE)
                  THEN redact_text(rec.prompt, Get(policy, "pii_patterns", <<>>))
                  ELSE rec.prompt
    IN IF Get(route_cfg, "ai", FALSE)
       THEN IF rec.body \in {"notjson", "list"} THEN Respond(rec, 500)
            ELSE IF rec.body = "noprompt" \/ Falsy(rec.prompt) THEN Respond(rec, 400)
            ELSE QuotaBegin([rec EXCEPT !.sent = prompt], prompt,
                            RouteQuotaCfg(route_cfg, policy))
       ELSE IF Get(route_cfg, "upstream", "") = "" THEN Respond(rec, 500)
            ELSE [rec EXCEPT !.pc = "forward",
                             !.out = [method |-> rec.method,
                                      headers |-> forward_headers(rec.hdrs),
                                      body |-> [kind |-> rec.body, prompt |-> rec.prompt]]]

\* ------------------------------------------------------- rate limiter
\* the comparison off by one: `val > requests + 1`
AfterCount_OffByOne(rec) ==
    IF rec.val > rec.reqs + 1 THEN [rec EXCEPT !.pc = "ttl"]
    ELSE LET ok == [rec EXCEPT !.allowed = "yes"]
         IN CASE rec.kind = "generate" -> generate_allowed(ok)
              [] rec.kind = "proxy" -> proxy_allowed(ok)
              [] OTHER -> route_allowed(ok)

\* `if val > requests` of rate_allow, and the handler's `if not allowed`
AfterCount(rec) ==
    IF rec.val > rec.reqs THEN [rec EXCEPT !.pc = "ttl"]
    ELSE LET ok == [rec EXCEPT !.allowed = "yes"]
         IN CASE rec.kind = "generate" -> generate_allowed(ok)
              [] rec.kind = "proxy" -> proxy_allowed(ok)
              [] OTHER -> route_allowed(ok)

\* the increment followed by EXPIRE whatever the value it returned
redis_incr_AlwaysExpire(r) ==
    LET rec == req[r]
        key == RlKey(rec.tenant, rec.window)
        val == Value(redis, key) + 1
    IN /\ rec.pc = "incr"
       /\ Value(redis, key) < MaxCount
       /\ redis' = IncrBy(redis, key, 1)
       /\ SetReq(r, [rec EXCEPT !.val = val, !.pc = "expire"])
       /\ admitted' = Live(Admit(admitted, req'[r], key), redis')
       /\ calls' = Live(Called(calls, key, "incr"), redis')
       /\ UNCHANGED <<now, policies, file, admin, audit, pure>>

\* `val = await redis.incr(key)`
redis_incr(r) ==
    LET rec == req[r]
        key == RlKey(rec.tenant, rec.window)
        val == Value(redis, key) + 1
    IN /\ rec.pc = "incr"
       /\ Value(redis, key) < MaxCount
       /\ redis' = IncrBy(redis, key, 1)
       /\ SetReq(r, IF val = 1 THEN [rec EXCEPT !.val = val, !.pc = "expire"]
                    ELSE AfterCount([rec EXCEPT !.val = val]))
       /\ admitted' = Live(Admit(admitted, req'[r], key), redis')
       /\ calls' = Live(Called(calls, key, "incr"), redis')
       /\ UNCHANGED <<now, policies, file, admin, audit, pure>>

\* `if val == 1: await redis.expire(key, per_seconds)`
redis_expire(r) ==
    LET rec == req[r]
    IN /\ rec.pc = "expire"
       /\ redis' = Expire(redis, RlKey(rec.tenant, rec.window), rec.per, now)
       /\ SetReq(r, AfterCount(rec))
       /\ admitted' = Live(Admit(admitted, req'[r], RlKey(rec.tenant, rec.window)), redis')
       /\ calls' = Live(Called(calls, RlKey(rec.tenant, rec.window), "expire"), redis')
       /\ UNCHANGED <<now, policies, file, admin, audit, pure>>

\* `ttl = await redis.ttl(key)`, the denial and the handler's 429
redis_ttl(r) ==
    LET rec == req[r]
        ttl == Ttl(redis, RlKey(rec.tenant, rec.window), now)
        retry == IF ttl # 0 /\ ttl > 0 THEN ttl ELSE rec.per
    IN /\ rec.pc = "ttl"
       /\ SetReq(r, Respond([rec EXCEPT !.allowed = "no", !.retry = retry], 429))
       /\ UNCHANGED <<now, policies, file, admin, redis, admitted, calls, audit, pure>>

\* the script with the cap compared to the counter alone
QuotaScript_IgnoresTokens(store, key, tokens, cap, expire, t) ==
    LET curr == Value(store, key)
    IN IF curr > cap
       THEN [res |-> 0 - 1, store |-> store]
       ELSE [res |-> curr + tokens,
             store |-> Expire(IncrBy(store, key, tokens), key, expire, t)]

\* the script incrementing before it compares, with nothing undone
QuotaScript_IncrFirst(store, key, tokens, cap, expire, t) ==
    LET after == Expire(IncrBy(store, key, tokens), key, expire, t)
    IN IF Value(after, key) > cap
       THEN [res |-> 0 - 1, store |-> after]
       ELSE [res |-> Value(after, key), store |-> after]

\* the Lua script of quota_consume, run by Redis in one piece at time t
QuotaScript(store, key, tokens, cap, expire, t) ==
    LET curr == Value(store, key)
    IN IF curr + tokens > cap
       THEN [res |-> 0 - 1, store |-> store]
       ELSE [res |-> curr + tokens,
             store |-> Expire(IncrBy(store, key, tokens), key, expire, t)]

\* ----------------------------------------------- provider and audit
\* the provider and the model of an AI call: the request's on /v1/generate
\* (the body's default provider, one model), the route's on /v1/route
GenerateProvider == "openai"
GenerateModel == "m0"
ProviderOf(rec) ==
    IF rec.kind = "generate" THEN GenerateProvider
    ELSE IF Get(rec.route_cfg, "provider", "") # "" THEN rec.route_cfg.provider
    ELSE Get(rec.policy, "default_provider", "ollama")
ModelOf(rec) ==
    IF rec.kind = "generate" THEN GenerateModel ELSE Get(rec.route_cfg, "model", None)

\* call_provider answers "[mock] <prompt>" at once when the policy holds no
\* api key for openai; otherwise it awaits the provider (the documents
\* name openai and ollama only)
IsMock(provider, policy) ==
    /\ provider = "openai"
    /\ Get(Get(Get(policy, "provider_credentials", EmptyDict), "openai", EmptyDict),
           "api_key", "") = ""
MockReply(prompt) == <<"[mock]">> \o prompt
\* what a provider answers, and what an upstream answers
Reply == <<"john", "smith", "ok">>
UpstreamReply == <<"up", "ok">>
ProxyUrl == "http://y/"

\* the arguments audit_log is called with, and the line it appends at time t
AuditEntry(rec, t) ==
    IF rec.kind = "proxy"
    THEN [timestamp |-> t, tenant |-> rec.tenant, provider |-> "proxy",
          model |-> ProxyUrl, prompt |-> <<rec.method, ProxyUrl>>,
          response |-> rec.response]
    ELSE IF Get(rec.route_cfg, "ai", FALSE) \/ rec.kind = "generate"
    THEN [timestamp |-> t, tenant |-> rec.tenant, provider |-> ProviderOf(rec),
          model |-> ModelOf(rec), prompt |-> rec.sent, response |-> rec.response]
    ELSE [timestamp |-> t, tenant |-> rec.tenant, provider |-> "proxy",
          model |-> rec.route_cfg.upstream,
          prompt |-> <<rec.method, rec.route_cfg.upstream>>,
          response |-> rec.response]

\* the response audited and returned as the provider gave it
Answered_Unredacted(rec, resp) ==
    Respond([rec EXCEPT !.response = resp, !.logged = @ + 1], 200)

\* the AI call returned resp: the response is redacted, audited, returned
Answered(rec, resp) ==
    Respond([rec EXCEPT !.response = redact_text(resp, Get(rec.policy, "pii_patterns", <<>>)),
                        !.logged = @ + 1], 200)
\* the upstream answered with a status: the exchange is audited; /v1/route
\* relays the status, /v1/proxy answers 200 with the status in its body
Relayed(rec, upstream_status) ==
    Respond([rec EXCEPT !.response = UpstreamReply, !.relayed = upstream_status,
                        !.logged = @ + 1],
            IF rec.kind = "proxy" THEN 200 ELSE upstream_status)

\* the handler once the quota is consumed, up to the await of the provider:
\* /v1/generate redacts the prompt here
BeforeCall(rec) ==
    [rec EXCEPT !.consumed = "yes", !.called = TRUE, !.pc = "provider",
                !.sent = IF rec.kind = "generate"
                         THEN redact_text(rec.prompt, Get(rec.policy, "pii_patterns", <<>>))
                         ELSE rec.sent]

\* the handler without its `if not ...: raise HTTPException(402)`
quota_eval_NoRaise(r) ==
    LET rec == req[r]
        out == QuotaScript(redis, QuotaKey(rec.tenant, rec.qmonth), rec.tokens,
                           rec.cap, rec.qexpire, now)
        go == [BeforeCall(rec) EXCEPT !.consumed = IF out.res = 0 - 1 THEN "no" ELSE "yes"]
    IN /\ rec.pc = "eval"
       /\ redis' = out.store
       /\ IF IsMock(ProviderOf(rec), rec.policy)
          THEN /\ HasRoom(audit)
               /\ SetReq(r, Answered(go, MockReply(go.sent)))
               /\ audit' = Written(audit, AuditEntry(req'[r], now))
          ELSE /\ SetReq(r, go)
               /\ UNCHANGED audit
       /\ UNCHANGED <<now, policies, file, admin, admitted, calls, pure>>

\* `res = await redis.eval(...)`; False is the handler's 402, True goes on
\* to call_provider, and to the end of the handler when the provider is
\* the mock
quota_eval(r) ==
    LET rec == req[r]
        out == QuotaScript(redis, QuotaKey(rec.tenant, rec.qmonth), rec.tokens,
                           rec.cap, rec.qexpire, now)
        go == BeforeCall(rec)
    IN /\ rec.pc = "eval"
       /\ redis' = out.store
       /\ IF out.res = 0 - 1
          THEN /\ SetReq(r, Respond([rec EXCEPT !.consumed = "no"], 402))
               /\ UNCHANGED audit
          ELSE IF IsMock(ProviderOf(rec), rec.policy)
          THEN /\ HasRoom(audit)
               /\ SetReq(r, Answered(go, MockReply(go.sent)))
               /\ audit' = Written(audit, AuditEntry(req'[r], now))
          ELSE /\ SetReq(r, go)
               /\ UNCHANGED audit
       /\ UNCHANGED <<now, policies, file, admin, admitted, calls, pure>>

\* the handler giving the tokens back to the quota counter when the call
\* raises
provider_return_Refund(r) ==
    \E ok \in BOOLEAN :
        /\ req[r].pc = "provider"
        /\ IF ok
           THEN /\ HasRoom(audit)
                /\ SetReq(r, Answered(req[r], Reply))
                /\ audit' = Written(audit, AuditEntry(req'[r], now))
                /\ UNCHANGED redis
           ELSE /\ SetReq(r, Respond(req[r], 500))
                /\ redis' = IncrBy(redis, QuotaKey(req[r].tenant, req[r].qmonth),
                                   0 - req[r].tokens)
                /\ UNCHANGED audit
        /\ UNCHANGED <<now, policies, file, admin, admitted, calls, pure>>

\* the provider answers (the response is redacted, audited and returned)
\* or the call raises (an unhandled exception: 500)
provider_return(r) ==
    \E ok \in BOOLEAN :
        /\ req[r].pc = "provider"
        /\ IF ok
           THEN /\ HasRoom(audit)
                /\ SetReq(r, Answered(req[r], Reply))
                /\ audit' = Written(audit, AuditEntry(req'[r], now))
           ELSE /\ SetReq(r, Respond(req[r], 500))
                /\ UNCHANGED audit
        /\ UNCHANGED <<now, policies, file, admin, redis, admitted, calls, pure>>

\* the upstream of a proxy answers with a status (audited, relayed) or the
\* outbound request raises (500)
forward_return(r) ==
    \E upstream_status \in {0, 200, 500} :
        /\ req[r].pc = "forward"
        /\ IF upstream_status # 0
           THEN /\ HasRoom(audit)
                /\ SetReq(r, Relayed(req[r], upstream_status))
                /\ audit' = Written(audit, AuditEntry(req'[r], now))
           ELSE /\ SetReq(r, Respond(req[r], 500))
                /\ UNCHANGED audit
        /\ UNCHANGED <<now, policies, file, admin, redis, admitted, calls, pure>>

\* the response is sent; the slot is free for the next request
finish(r) ==
    /\ req[r].pc = "done"
    /\ SetReq(r, Idle)
    /\ UNCHANGED <<now, policies, file, admin, redis, admitted, calls, audit, pure>>

\* -------------------------------------------------------------- admin
\* POST /admin/reload_policies
reload_policies ==
    /\ IF LoadRaises(file)
       THEN /\ admin' = [op |-> "reload", status |-> 500]
            /\ UNCHANGED policies
       ELSE /\ admin' = [op |-> "reload", status |-> 200]
            /\ policies' = load(file)
    /\ UNCHANGED <<now, file, redis, req, admitted, calls, audit, pure>>

\* what a failed write may leave of the policy file: the file as it was
\* (open failed), a truncated file, a partly written one
AfterFailedWrite(old) == {old, EmptyText, GarbageText}

\* the handler swapping the parsed document in before it persists it
update_policies_SwapFirst(body) ==
    /\ IF body.kind # "mapping"
       THEN /\ admin' = [op |-> "update", status |-> 400]
            /\ UNCHANGED <<policies, file>>
       ELSE /\ policies' = body.raw
            /\ \E written \in BOOLEAN :
                  IF written
                  THEN /\ file' = MappingText(safe_dump(body.raw))
                       /\ admin' = [op |-> "update", status |-> 200]
                  ELSE /\ file' \in AfterFailedWrite(file)
                       /\ admin' = [op |-> "update", status |-> 500]
    /\ UNCHANGED <<now, redis, req, admitted, calls, audit, pure>>

\* POST /admin/policies
update_policies(body) ==
    /\ IF body.kind = "empty" \/ body.kind = "garbage" \/ body.kind # "mapping"
       THEN /\ admin' = [op |-> "update", status |-> 400]
            /\ UNCHANGED <<policies, file>>
       ELSE \E written \in BOOLEAN :
              IF written
              THEN /\ file' = MappingText(safe_dump(body.raw))
                   /\ policies' = load(file')
                   /\ admin' = [op |-> "update", status |-> 200]
              ELSE /\ file' \in AfterFailedWrite(file)
                   /\ admin' = [op |-> "update", status |-> 500]
                   /\ UNCHANGED policies
    /\ UNCHANGED <<now, redis, req, admitted, calls, audit, pure>>

\* a step of the handler invocation in slot r that is past its start
Step(r) ==
    \/ redis_incr(r)
    \/ redis_expire(r)
    \/ redis_ttl(r)
    \/ quota_eval(r)
    \/ provider_return(r)
    \/ forward_return(r)
    \/ finish(r)

\* a request arrives in slot r
Start(r, I) ==
    \/ generate_start(r, I)
    \/ proxy_start(r, I)
    \/ route_forward_start(r, I)

\* Two clients of tenant t1 race on the shared store under the startup
\* document: one sends any request of the tenant, the other /v1/generate.
Next ==
    \/ Tick
    \/ Start("r1", TenantInputs)
    \/ generate_start("r2", RacerInputs)
    \/ \E r \in Slots : Step(r)

Spec == Init /\ [][Next]_vars

\* One client sends any request under the startup document.
NextAny ==
    \/ Start("r1", AnyInputs)
    \/ Step("r1")

SpecAny == Init /\ [][NextAny]_vars

\* One client of tenant t1 sends requests with any body and headers.
NextBody ==
    \/ Tick
    \/ Start("r1", BodyInputs)
    \/ Step("r1")

SpecBody == Init /\ [][NextBody]_vars

\* One client sends requests, answered or refused, and the audit log is
\* kept.
InitAudit ==
    /\ Startup
    /\ audit = EmptyLog
    /\ pure = NoText

NextAudit ==
    \/ Tick
    \/ Start("r1", AuditInputs)
    \/ Step("r1")

SpecAudit == InitAudit /\ [][NextAudit]_vars

\* One client of each tenant's token sends /v1/generate and /v1/route
\* requests while an admin reloads and replaces the policy document.
NextAdmin ==
    \/ generate_start("r1", AdminInputs)
    \/ route_forward_start("r1", AdminInputs)
    \/ Step("r1")
    \/ reload_policies
    \/ \E body \in Bodies : update_policies(body)

SpecAdmin == Init /\ [][NextAdmin]_vars

\* ------------------------------------------------------ redact_text
\* The texts and the pattern lists redact_text is applied to on its own:
\* every text of at most MaxLen words, and lists of phrases, one of which
\* matches the marker followed by a word.
Words == {"john", "smith", "hi", REDACTED}
RECURSIVE TextsOf(_)
TextsOf(n) ==
    IF n = 0 THEN {<<>>}
    ELSE LET shorter == TextsOf(n - 1)
         IN shorter \cup {Append(t, w) : t \in shorter, w \in Words}
PatternLists ==
    { <<>>, PiiPatterns, << <<"hi">>, <<"john", "smith">> >>,
      << <<REDACTED, "hi">>, <<"john">> >> }

InitRedact ==
    /\ Startup
    /\ audit = Unkept
    /\ pure \in {[NoText EXCEPT !.text = t, !.patterns = ps] :
                    t \in TextsOf(MaxLen), ps \in PatternLists}

\* redact_text(text, patterns)
redact_once ==
    /\ pure.step = 0
    /\ pure' = [pure EXCEPT !.once = redact_text(pure.text, pure.patterns), !.step = 1]
    /\ UNCHANGED <<now, policies, file, admin, redis, req, admitted, calls, audit>>

\* redact_text of the text redact_text returned, with the same patterns
redact_twice ==
    /\ pure.step = 1
    /\ pure' = [pure EXCEPT !.twice = redact_text(pure.once, pure.patterns), !.step = 2]
    /\ UNCHANGED <<now, policies, file, admin, redis, req, admitted, calls, audit>>

NextRedact == redact_once \/ redact_twice

SpecRedact == InitRedact /\ [][NextRedact]_vars

\* ------------------------------------------------------------- claims
\* the monthly_tokens and the requests configured at the tenant's level
TenantCap(raw, tenant) ==
    Get(TenantQuotaCfg(for_tenant(raw, tenant)), "monthly_tokens", DefaultMonthlyTokens)
TenantRequests(raw, tenant) ==
    Get(TenantRateCfg(for_tenant(raw, tenant)), "requests", DefaultRequests)
\* the largest cap, and the largest requests, a request of the tenant can
\* resolve under the document: the tenant's or a route's override
LargestCap(raw, tenant) ==
    LET policy == for_tenant(raw, tenant)
        routes == Get(policy, "routes", EmptyDict)
        caps == {TenantCap(raw, tenant)} \cup
                {Get(RouteQuotaCfg(routes[n], policy), "monthly_tokens",
                     DefaultMonthlyTokens) : n \in DOMAIN routes}
    IN CHOOSE c \in caps : \A d \in caps : d <= c
LargestRequests(raw, tenant) ==
    LET policy == for_tenant(raw, tenant)
        routes == Get(policy, "routes", EmptyDict)
        ns == {TenantRequests(raw, tenant)} \cup
              {Get(RouteRateCfg(routes[n], policy), "requests", DefaultRequests) :
                  n \in DOMAIN routes}
    IN CHOOSE c \in ns : \A d \in ns : d <= c
IsQuotaKey(k) == k[1] = "quota"

\* C1, as stated: for every tenant and calendar month, under any
\* interleaving of consumption attempts through /v1/generate and the AI
\* routes, the quota counter never exceeds the tenant's configured
\* monthly_tokens.
C1_CounterWithinTenantCap ==
    \A k \in DOMAIN redis :
        IsQuotaKey(k) => redis[k].val <= TenantCap(policies, k[2])

\* C1, amended: a quota counter only grows by a successful attempt, which
\* adds exactly its tokens and leaves the counter at most the cap that its
\* request resolved (the route's quota when the route sets one, else the
\* tenant's); so the counter never exceeds the largest cap the tenant's
\* requests resolve.
C1_CounterWithinResolvedCap ==
    /\ [](\A k \in DOMAIN redis :
            IsQuotaKey(k) => redis[k].val <= LargestCap(policies, k[2]))
    /\ [][\A k \in DOMAIN redis' :
            (IsQuotaKey(k) /\ Value(redis', k) > Value(redis, k)) =>
                \E r \in Slots :
                    /\ req[r].pc = "eval"
                    /\ k = QuotaKey(req[r].tenant, req[r].qmonth)
                    /\ req'[r].consumed = "yes"
                    /\ Value(redis', k) = Value(redis, k) + req[r].tokens
                    /\ Value(redis', k) <= req[r].cap]_vars

\* both clients have consumed, the last through a route whose quota
\* override let the counter pass the tenant's monthly_tokens
C1_Witness ==
    /\ \A r \in Slots : req[r].consumed = "yes"
    /\ \E r \in Slots :
          /\ req[r].route_name = "big"
          /\ req[r].cap > TenantCap(policies, req[r].tenant)
          /\ Value(redis, QuotaKey(req[r].tenant, req[r].qmonth))
                > TenantCap(policies, req[r].tenant)

\* C2: an attempt with current + tokens > cap answers 402 and leaves the
\* store (the counter's value and its expiry) as it was; an attempt with
\* current + tokens <= cap adds exactly its tokens to the counter and
\* touches no other key.
C2_AttemptOutcome ==
    [][\A r \in Slots :
        (req[r].pc = "eval" /\ req'[r].pc # "eval") =>
            LET k == QuotaKey(req[r].tenant, req[r].qmonth)
                curr == Value(redis, k)
            IN IF curr + req[r].tokens > req[r].cap
               THEN /\ req'[r].pc = "done"
                    /\ req'[r].status = 402
                    /\ req'[r].consumed = "no"
                    /\ redis' = redis
               ELSE /\ req'[r].consumed = "yes"
                    /\ req'[r].status = 0
                    /\ Value(redis', k) = curr + req[r].tokens
                    /\ DOMAIN redis' = DOMAIN redis \cup {k}
                    /\ \A j \in DOMAIN redis : j # k => redis'[j] = redis[j]]_vars

\* an attempt failed on a counter that exists, while the other client's
\* attempt on it had succeeded
C2_Witness ==
    \E r, o \in Slots :
        /\ req[r].status = 402 /\ req[r].consumed = "no"
        /\ QuotaKey(req[r].tenant, req[r].qmonth) \in DOMAIN redis
        /\ req[o].consumed = "yes" /\ req[o].qmonth = req[r].qmonth

\* C3, as stated: for a tenant configured with requests=N, per_seconds=W,
\* at most N requests are admitted within one window over /v1/generate,
\* /v1/proxy and /v1/route, and every denial has 0 < retry_after <= W.
C3_AtMostTenantRequests ==
    /\ \A k \in DOMAIN admitted : admitted[k] <= TenantRequests(policies, k[2])
    /\ \A r \in Slots :
          req[r].status = 429 => (0 < req[r].retry /\ req[r].retry <= req[r].per)

\* C3, amended: a request is admitted only if the value its own increment
\* gave the window counter is at most the requests of the config it
\* resolved (the route's rate_limit when the route sets one, else the
\* tenant's); so a window counter admits at most the largest requests its
\* requests resolve, and every denial has 0 < retry_after <= per_seconds.
C3_AtMostResolvedRequests ==
    /\ \A k \in DOMAIN admitted :
          /\ admitted[k] <= LargestRequests(policies, k[2])
          /\ admitted[k] <= Value(redis, k)
    /\ \A r \in Slots :
          /\ req[r].allowed = "yes" => (1 <= req[r].val /\ req[r].val <= req[r].reqs)
          /\ req[r].status = 429 =>
                /\ req[r].val > req[r].reqs
                /\ 0 < req[r].retry /\ req[r].retry <= req[r].per

\* a window counter has admitted more than the tenant's requests, through a
\* route override, and has then denied a request
C3_Witness ==
    \E r \in Slots :
        LET k == RlKey(req[r].tenant, req[r].window)
        IN /\ req[r].status = 429
           /\ k \in DOMAIN admitted
           /\ admitted[k] > TenantRequests(policies, req[r].tenant)
           /\ admitted[k] = LargestRequests(policies, req[r].tenant)

\* C4: on the AI paths the quota script is issued only once the rate
\* limiter has allowed the request, the provider is called only once the
\* quota attempt has succeeded, and a request answered 429 or 402 never
\* called the provider.
C4_Ordering ==
    \A r \in Slots :
        /\ (req[r].pc \in {"eval", "provider"} \/ req[r].consumed # "none")
              => req[r].allowed = "yes"
        /\ req[r].called => req[r].consumed = "yes"
        /\ req[r].pc = "provider" => req[r].called
        /\ req[r].status \in {429, 402} => ~req[r].called
        /\ req[r].allowed = "no" => (req[r].status = 429 /\ req[r].consumed = "none")
        /\ req[r].consumed = "no" => req[r].status = 402

\* one request went through the rate limiter, the quota and the provider
\* while the other was stopped at the quota
C4_Witness ==
    \E r, o \in Slots :
        /\ req[r].called /\ req[r].status = 200 /\ req[r].kind = "route"
        /\ req[o].status = 402 /\ ~req[o].called

\* the documents that are ever active: the startup one, the two an admin
\* posts as the dump wrote them, and the empty one of an emptied file
ActiveDocs == {load(MappingText(safe_dump(b.raw))) : b \in Bodies} \cup {DocA, EmptyDict}
\* everything request q has read of the policy so far is what document d says
FromDoc(q, d) ==
    LET policy == for_tenant(d, q.tenant)
        route_cfg == route_for_tenant(d, q.tenant, q.route_name)
        rl_cfg == IF q.kind = "route" THEN RouteRateCfg(route_cfg, policy)
                  ELSE TenantRateCfg(policy)
        q_cfg == IF q.kind = "route" THEN RouteQuotaCfg(route_cfg, policy)
                 ELSE TenantQuotaCfg(policy)
        sent == IF q.kind = "route" /\ Get(route_cfg, "redact", FALSE)
                THEN redact_text(q.prompt, Get(policy, "pii_patterns", <<>>))
                ELSE q.prompt
    IN /\ q.tenant = get_tenant_from_token(q.auth, d)
       /\ q.policy = policy
       /\ (q.kind = "route" /\ q.status \notin {404}) => q.route_cfg = route_cfg
       /\ (q.allowed # "none" \/ q.pc \in {"incr", "expire", "ttl"}) =>
             /\ q.reqs = Get(rl_cfg, "requests", DefaultRequests)
             /\ q.per = Get(rl_cfg, "per_seconds", DefaultPerSeconds)
       /\ (q.consumed # "none" \/ q.pc = "eval") =>
             /\ q.cap = Get(q_cfg, "monthly_tokens", DefaultMonthlyTokens)
             /\ q.kind = "route" => q.sent = sent
             /\ q.tokens = estimate_tokens(sent)
       /\ q.called =>
             /\ q.kind = "generate" =>
                   q.sent = redact_text(q.prompt, Get(policy, "pii_patterns", <<>>))
             /\ q.logged = 1 =>
                   \E resp \in {Reply, MockReply(q.sent)} :
                       /\ (resp = Reply) = ~IsMock(ProviderOf(q), policy)
                       /\ q.response = redact_text(resp, Get(policy, "pii_patterns", <<>>))

\* C5: while an admin reloads or replaces the policy, everything a request
\* in flight uses (tenant, tenant policy, route config, rate limit, quota,
\* PII patterns) comes from one and the same document.
C5_OneSnapshot ==
    \A r \in Slots :
        req[r].tenant # None => \E d \in ActiveDocs : FromDoc(req[r], d)

\* a request passed the quota with the cap and the redaction of the
\* document it started under, after the active document was replaced by one
\* that says otherwise
C5_Witness ==
    \E r \in Slots :
        /\ req[r].pc = "provider"
        /\ req[r].policy # for_tenant(policies, req[r].tenant)
        /\ req[r].sent # req[r].prompt
        /\ ~FromDoc(req[r], policies)

\* C6: the active document changes only in a step that answers 200: an
\* update whose body parsed to a mapping and was persisted, after which the
\* active document is the persisted one, or a reload of the file as it is.
\* A failed update (400 or 500) leaves the active document, hence every
\* for_tenant and route_for_tenant lookup, as before.
C6_SwapOnlyOnSuccess ==
    [][/\ policies' # policies =>
            /\ admin'.status = 200
            /\ policies' = load(file')
            /\ \/ admin'.op = "reload" /\ file' = file
               \/ /\ admin'.op = "update"
                  /\ \E b \in Bodies :
                        b.kind = "mapping" /\ file' = MappingText(safe_dump(b.raw))
       /\ file' # file => admin'.op = "update" /\ admin'.status \in {200, 500}
      ]_vars

\* an update failed while persisting and left a file that does not parse;
\* the document swapped in by an earlier update still serves a request
C6_Witness ==
    /\ admin = [op |-> "update", status |-> 500]
    /\ file.kind = "garbage"
    /\ policies = load(MappingText(safe_dump(DocB)))
    /\ \E r \in Slots : req[r].tenant = "t2" /\ req[r].pc = "incr"

\* the route names configured for the tenant of request q
RouteNames(q) == DOMAIN Get(for_tenant(policies, q.tenant), "routes", EmptyDict)

\* C7: on /v1/route a two-field header whose token belongs to no tenant
\* gets 403; a known tenant naming a route it has not configured gets 404;
\* a configured route with a method outside its allow_methods gets 405;
\* 404 is answered only for a known tenant, 405 only for a route found.
C7_RouteResolution ==
    \A r \in Slots :
        LET q == req[r]
            parts == Split(q.auth)
            known == Len(parts) = 2 /\ parts[2] \in DOMAIN token_map(policies)
            routes == Get(for_tenant(policies, q.tenant), "routes", EmptyDict)
            listed == Get(routes[q.route_name], "allow_methods", <<>>)
        IN (q.kind = "route" /\ q.pc # "idle") =>
              /\ (Len(parts) = 2 /\ ~known) => q.status = 403
              /\ (known /\ q.route_name \notin DOMAIN routes) => q.status = 404
              /\ (known /\ q.route_name \in DOMAIN routes /\ listed # <<>>
                    /\ q.method \notin Range(listed)) => q.status = 405
              /\ q.status = 403 => ~known
              /\ q.status = 404 => known
              /\ q.status = 405 =>
                    (known /\ q.route_name \in DOMAIN routes
                       /\ q.method \notin Range(listed))

\* a known tenant's request on a configured route was refused for its method
C7_Witness ==
    \E r \in Slots :
        /\ req[r].kind = "route" /\ req[r].status = 405
        /\ req[r].tenant = "t1" /\ req[r].route_name = "up" /\ req[r].method = "POST"

\* C8: on every non-admin endpoint a missing or malformed Authorization
\* header (empty, or not exactly two space-separated fields) is answered
\* 401, and 403 is answered only for a well-formed header whose token is
\* unknown.
C8_MalformedIs401 ==
    \A r \in Slots :
        LET q == req[r]
            parts == Split(q.auth)
        IN q.pc # "idle" =>
              /\ Len(parts) # 2 => q.status = 401
              /\ q.status = 403 =>
                    (Len(parts) = 2 /\ parts[2] \notin DOMAIN token_map(policies))

\* C9: the authenticator resolves a header to a tenant only if the header
\* is exactly "Bearer <token>" with the token in the token index.
C9_OnlyBearer ==
    \A r \in Slots :
        req[r].tenant # None =>
            \E tok \in DOMAIN token_map(policies) :
                /\ req[r].auth = <<"Bearer", SP, tok>>
                /\ req[r].tenant = token_map(policies)[tok]

\* C10: 404 is answered only for a route name absent from the tenant's
\* routes; a route declared with an empty configuration is found and goes
\* on to the method check.
C10_EmptyRouteIsFound ==
    \A r \in Slots :
        (req[r].kind = "route" /\ req[r].pc # "idle" /\ req[r].tenant # None) =>
            /\ req[r].status = 404 => req[r].route_name \notin RouteNames(req[r])
            /\ req[r].route_name \in RouteNames(req[r]) => req[r].status # 404

\* C11: on /v1/route every field of the effective rate_limit and quota is
\* the route's when the route sets that field and otherwise the tenant's,
\* also for a field left unset inside a partially specified override; the
\* built-in default applies only when neither sets it.
C11_UnsetFieldInherits ==
    \A r \in Slots :
        LET q == req[r]
            \* field f of the override k when the route sets that field,
            \* else field f of the tenant's config k, else the built-in dflt
            Inherited(x, k, f, dflt) ==
                IF f \in DOMAIN Get(x.route_cfg, k, EmptyDict)
                THEN x.route_cfg[k][f]
                ELSE Get(Get(x.policy, k, EmptyDict), f, dflt)
        IN q.kind = "route" =>
              /\ (q.allowed # "none" \/ q.pc \in {"incr", "expire", "ttl"}) =>
                    /\ q.reqs = Inherited(q, "rate_limit", "requests", DefaultRequests)
                    /\ q.per = Inherited(q, "rate_limit", "per_seconds", DefaultPerSeconds)
              /\ (q.consumed # "none" \/ q.pc = "eval") =>
                    q.cap = Inherited(q, "quota", "monthly_tokens", DefaultMonthlyTokens)

\* C12, as stated: every completed AI call and every completed proxy
\* forward has exactly one audit record, and a request that ended in 401,
\* 403, 404, 405, 429, 402, 400 or 500 has none.
C12_NoRecordOnError ==
    \A r \in Slots :
        LET q == req[r]
        IN q.pc = "done" =>
              /\ (q.response # <<>>) => q.logged = 1
              /\ q.status \in {401, 403, 404, 405, 429, 402, 400, 500} => q.logged = 0

\* C12, amended: the step in which an AI call or a proxy forward completes
\* (the provider or the upstream answered) appends exactly one line at the
\* end of the log, holding the prompt as it was sent to the provider and
\* the response after redaction (for a forward: the request line and the
\* upstream's text); no other step touches the log.  A request the gateway
\* ended itself with 401, 403, 404, 405, 429, 402, 400, or with a 500 it
\* raised, has no record; a forward whose upstream answered 500 is
\* completed, is answered 500 and has its record.
C12_OneRecordPerCompletion ==
    /\ [](\A r \in Slots :
            LET q == req[r]
            IN q.pc = "done" =>
                  /\ q.response # <<>> => q.logged = 1
                  /\ q.status \in {401, 403, 404, 405, 429, 402, 400} => q.logged = 0
                  /\ (q.status = 500 /\ q.relayed = 0) => q.logged = 0
                  /\ q.logged = 1 =>
                        (q.response # <<>> /\ (q.called \/ q.relayed # 0)))
    /\ [][\/ /\ audit' = audit
             /\ \A r \in Slots : req'[r].logged <= req[r].logged
          \/ \E r \in Slots :
                LET q == req'[r]
                    line == audit'.lines[Len(audit'.lines)]
                    patterns == Get(q.policy, "pii_patterns", <<>>)
                IN /\ req[r].pc \in {"eval", "provider", "forward"}
                   /\ q.pc = "done" /\ q.logged = req[r].logged + 1
                   /\ Len(audit'.lines) = Len(audit.lines) + 1
                   /\ SubSeq(audit'.lines, 1, Len(audit.lines)) = audit.lines
                   /\ line.tenant = q.tenant
                   /\ line.response = q.response
                   /\ q.called =>
                         /\ line.prompt = q.sent
                         /\ \E resp \in {Reply, MockReply(q.sent)} :
                               q.response = redact_text(resp, patterns)
                         /\ (q.kind = "generate" \/ Get(q.route_cfg, "redact", FALSE))
                               => q.sent = redact_text(q.prompt, patterns)
                   /\ ~q.called => line.provider = "proxy"]_vars

\* the log holds the record of an AI call whose response was redacted and,
\* after it, the record of a forward that is answered the upstream's 500
C12_Witness ==
    /\ Len(audit.lines) = 2
    /\ audit.lines[1].provider = "openai"
    /\ audit.lines[1].prompt = <<REDACTED, "hi">>
    /\ audit.lines[1].response = <<REDACTED, "ok">>
    /\ audit.lines[2].provider = "proxy"
    /\ \E r \in Slots :
          req[r].status = 500 /\ req[r].relayed = 500 /\ req[r].logged = 1

\* C13: on an AI route every request that passed the rate limit and whose
\* body is not JSON, is JSON without a prompt field, or has an empty prompt
\* ends in 400, with no quota consumed, no provider call, no audit record.
C13_BadBodyIs400 ==
    \A r \in Slots :
        LET q == req[r]
        IN (/\ q.kind = "route" /\ Get(q.route_cfg, "ai", FALSE)
            /\ q.allowed = "yes"
            /\ (q.body # "object" \/ q.prompt = <<>>)) =>
              /\ q.status = 400
              /\ q.consumed = "none" /\ ~q.called /\ q.logged = 0

\* C14: redact_text is idempotent: for every text and every pattern list
\* P, redact_text(redact_text(text, P), P) = redact_text(text, P).
C14_RedactIdempotent ==
    pure.step = 2 => pure.twice = pure.once

\* C15: on the proxy branch of /v1/route the forwarded request carries no
\* header named host, authorization or content-length (whatever the case),
\* and carries the inbound method, every other inbound header with its
\* value and the raw body unchanged.
C15_ForwardCarriesTheRest ==
    \A r \in Slots :
        LET q == req[r]
        IN q.out # EmptyDict =>
              /\ \A n \in DOMAIN q.out.headers : Lower(n) \notin StrippedHeaders
              /\ q.out.method = q.method
              /\ q.out.body = [kind |-> q.body, prompt |-> q.prompt]
              /\ \A i \in DOMAIN q.hdrs :
                    Lower(q.hdrs[i][1]) \notin StrippedHeaders =>
                        /\ q.hdrs[i][1] \in DOMAIN q.out.headers
                        /\ q.out.headers[q.hdrs[i][1]] = q.hdrs[i][2]

\* C16: rate-limit denials do not carry over between windows while quota
\* consumption does.  A rate check counts on the counter of its own
\* (tenant, window) alone, the window being the one of the instant the
\* check began, so the first check of a window is admitted whatever was
\* denied before; a quota counter never shrinks or vanishes as the clock
\* passes from one window to the next; and a rate-admitted AI call succeeds
\* unless its tokens would take the month's counter above monthly_tokens,
\* in which case it is answered 402 and not 429.
C16_WindowsResetQuotaStays ==
    /\ [](\A r \in Slots :
            /\ (req[r].val = 1 /\ req[r].reqs >= 1 /\ req[r].pc \notin {"incr", "expire"})
                  => req[r].allowed = "yes"
            /\ req[r].status = 402 => (req[r].allowed = "yes" /\ req[r].val <= req[r].reqs))
    /\ [][/\ \A k \in DOMAIN redis :
                IsQuotaKey(k) => (k \in DOMAIN redis' /\ redis'[k].val >= redis[k].val)
          /\ \A r \in Slots :
                /\ (req[r].pc = "idle" /\ req'[r].pc = "incr") =>
                      req'[r].window = now \div req'[r].per
                /\ (req[r].pc = "incr" /\ req'[r].pc # "incr") =>
                      req'[r].val = Value(redis, <<"rl", req[r].tenant, req[r].window>>) + 1
                /\ (req[r].pc = "eval" /\ req'[r].pc # "eval") =>
                      LET curr == Value(redis, <<"quota", req[r].tenant, req[r].qmonth>>)
                      IN IF curr + req[r].tokens > req[r].cap
                         THEN req'[r].status = 402
                         ELSE req'[r].consumed = "yes" /\ req'[r].status # 402]_vars

\* one request was denied with 429 in one window; in the next window a
\* request of the same tenant was admitted by the rate limiter and, the
\* month's tokens being used up, answered 402
C16_Witness ==
    \E r, o \in Slots :
        /\ req[r].status = 429
        /\ req[o].tenant = req[r].tenant
        /\ req[o].per = req[r].per
        /\ req[o].window = req[r].window + 1
        /\ req[o].allowed = "yes" /\ req[o].status = 402
        /\ Value(redis, QuotaKey(req[o].tenant, req[o].qmonth)) + req[o].tokens > req[o].cap

\* C17: under any interleaving of concurrent rate checks on one
\* (tenant, window) counter, the counter's value is the number of rate
\* checks, admitted and denied, made on it since it was created, and its
\* expiry is set exactly once, to per_seconds from then, by the request
\* whose increment took the counter from absent to 1; no other request
\* sets or extends it.
C17_CountsChecksExpiresOnce ==
    /\ [](\A k \in DOMAIN redis :
            k[1] = "rl" =>
                /\ k \in DOMAIN calls
                /\ redis[k].val = calls[k].incr
                /\ calls[k].expire <= 1
                /\ redis[k].exp # 0 <=> calls[k].expire = 1)
    /\ [][\A k \in DOMAIN redis' :
            k[1] = "rl" =>
                IF k \notin DOMAIN redis
                THEN /\ redis'[k] = [val |-> 1, exp |-> 0]
                     /\ \E r \in Slots :
                           /\ req[r].pc = "incr" /\ req'[r].pc = "expire"
                           /\ req'[r].val = 1
                           /\ k = <<"rl", req[r].tenant, req[r].window>>
                ELSE /\ redis'[k].val \in {redis[k].val, redis[k].val + 1}
                     /\ redis'[k].exp # redis[k].exp =>
                           \E r \in Slots :
                               /\ req[r].pc = "expire" /\ req'[r].pc # "expire"
                               /\ req[r].val = 1
                               /\ k = <<"rl", req[r].tenant, req[r].window>>
                               /\ redis[k].exp = 0
                               /\ redis'[k].exp = now + req[r].per
                               /\ redis'[k].val = redis[k].val]_vars

\* three checks have counted on one counter, the first by the request that
\* created it and the third denied, and the counter has its one expiry
C17_Witness ==
    \E r, o \in Slots :
        LET k == RlKey(req[r].tenant, req[r].window)
        IN /\ r # o
           /\ k = RlKey(req[o].tenant, req[o].window)
           /\ k \in DOMAIN redis /\ k \in DOMAIN calls
           /\ redis[k].val = 3 /\ redis[k].exp # 0
           /\ calls[k] = [incr |-> 3, expire |-> 1]
           /\ req[r].status = 429 /\ req[r].val = 3
           /\ req[o].val = 1 /\ req[o].allowed = "yes"

\* C18: on every AI path redaction comes before the quota: whenever the
\* prompt sent to the provider is a redacted prompt, the tokens charged to
\* the quota are the estimate of that redacted prompt, not of the text as
\* received.
C18_ChargedForRedactedPrompt ==
    \A r \in Slots :
        LET q == req[r]
        IN (q.called /\ q.sent # q.prompt) => q.tokens = estimate_tokens(q.sent)

\* C19: after any sequence of reloads and admin replaces, a new request's
\* token is resolved against the document active at that moment alone: a
\* token it does not list does not authenticate (403), a token it lists
\* resolves to the tenant listing it, and a token listed under several
\* tenants resolves to the last of them in the order of the active
\* document (the order of the persisted file, whose tenants are sorted by
\* key).
C19_TokenFromActiveDocument ==
    [][\A r \in Slots :
        (req[r].pc = "idle" /\ req'[r].pc # "idle") =>
            LET q == req'[r]
                parts == Split(q.auth)
                ts == Get(policies, "tenants", <<>>)
                listing == {i \in DOMAIN ts :
                               parts[2] \in Range(Get(ts[i][2], "tokens", <<>>))}
                last == CHOOSE i \in listing : \A j \in listing : j <= i
            IN Len(parts) = 2 =>
                  IF listing = {}
                  THEN q.tenant = None /\ q.status = 403
                  ELSE /\ q.tenant = ts[last][1]
                       /\ q.status # 403
                       /\ q.policy = ts[last][2]]_vars

\* the active document is the one persisted by a replace; it lists the
\* token of a request in flight under both tenants, and the request runs
\* as the tenant that comes last in it, which the posted body had first
C19_Witness ==
    /\ policies = load(MappingText(safe_dump(DocB)))
    /\ policies # DocB
    /\ \E r \in Slots :
          /\ req[r].auth = <<"Bearer", SP, "b">>
          /\ req[r].pc = "incr"
          /\ req[r].tenant = "t2"
          /\ DocB.tenants[1][1] = "t2"
          /\ \A i \in DOMAIN policies.tenants :
                "b" \in Range(policies.tenants[i][2].tokens)

\* the quota counters, and the rate window counters, of the store
Counters(store, prefix) ==
    [k \in {j \in DOMAIN store : j[1] = prefix} |-> store[k].val]

\* C20: a request rejected before the rate-limit step (401, 403, 404 or
\* 405) leaves every rate window counter and every quota counter as it
\* was, and a request denied by the rate limiter (429) leaves every quota
\* counter as it was.
C20_RejectedLeavesCounters ==
    /\ [](\A r \in Slots :
            /\ req[r].status \in {401, 403, 404, 405} =>
                  /\ req[r].val = 0 /\ req[r].allowed = "none"
                  /\ req[r].consumed = "none" /\ req[r].tokens = 0
            /\ req[r].status = 429 =>
                  /\ req[r].allowed = "no"
                  /\ req[r].consumed = "none" /\ req[r].tokens = 0)
    /\ [][/\ \A r \in Slots :
                (req[r].pc = "idle" /\ req'[r].status \in {401, 403, 404, 405}) =>
                    redis' = redis
          /\ Counters(redis', "rl") # Counters(redis, "rl") =>
                \/ now' # now
                \/ \E r \in Slots :
                      /\ req[r].pc = "incr" /\ req[r].status = 0
                      /\ req[r].tenant # None
          /\ Counters(redis', "quota") # Counters(redis, "quota") =>
                \/ now' # now
                \/ \E r \in Slots :
                      /\ req[r].pc = "eval" /\ req[r].allowed = "yes"
                      /\ req'[r].consumed = "yes"
                      /\ req'[r].status \notin {401, 403, 404, 405, 429}]_vars

\* a request was refused for its method while the tenant's window counter
\* and quota counter stand at what earlier requests left
C20_Witness ==
    \E r \in Slots :
        /\ req[r].status = 405
        /\ \E k \in DOMAIN redis : k[1] = "rl" /\ k[2] = req[r].tenant /\ redis[k].val >= 1
        /\ \E k \in DOMAIN redis : k[1] = "quota" /\ k[2] = req[r].tenant /\ redis[k].val >= 1

\* C21: when the provider call of an AI request fails after its quota
\* consumption succeeded, the failure is answered as an error with no
\* retry: the handler only moves forward, through at most one rate
\* increment, one quota consumption and one provider call, and after the
\* failure nothing is left but the end of the request; the step of the
\* failure leaves the store as it was, so the tokens stay charged to the
\* quota counter, and the request has no audit record.
C21_FailedCallChargedUnaudited ==
    /\ [](\A r \in Slots :
            LET q == req[r]
            IN (q.called /\ q.status = 500) =>
                  /\ q.pc = "done"
                  /\ q.allowed = "yes" /\ q.val >= 1
                  /\ q.consumed = "yes" /\ q.tokens >= 1
                  /\ Value(redis, <<"quota", q.tenant, q.qmonth>>) >= q.tokens
                  /\ q.logged = 0 /\ q.response = <<>>)
    /\ [][\A r \in Slots :
            LET Rank(pc) == CASE pc = "idle" -> 0
                              [] pc = "incr" -> 1
                              [] pc = "expire" -> 2
                              [] pc = "ttl" -> 3
                              [] pc = "eval" -> 4
                              [] pc \in {"provider", "forward"} -> 5
                              [] OTHER -> 6
            IN req'[r] # req[r] =>
                  /\ req[r].pc # "done" => Rank(req'[r].pc) > Rank(req[r].pc)
                  /\ req[r].pc = "done" => req'[r] = Idle
                  /\ (req[r].pc = "provider" /\ req'[r].status # 200) =>
                        /\ req'[r] = [req[r] EXCEPT !.pc = "done", !.status = 500]
                        /\ redis' = redis
                        /\ audit' = audit
                  /\ (req[r].called /\ req[r].status = 500) =>
                        /\ redis' = redis
                        /\ audit' = audit]_vars

\* the provider call of a request failed: the request is answered 500, its
\* tokens are on the quota counter, and the audit log, which is kept, is
\* empty
C21_Witness ==
    \E r \in Slots :
        /\ req[r].called /\ req[r].status = 500
        /\ req[r].consumed = "yes"
        /\ Value(redis, QuotaKey(req[r].tenant, req[r].qmonth)) = req[r].tokens
        /\ req[r].tokens = 2
        /\ audit = EmptyLog

====
